---- MODULE Spec2Model ----
(***************************************************************************)
(* Model of src/main.py: the interactive shell main(), the two lookup      *)
(* tools, the ResponseFormat contract and the tool-calling agent that      *)
(* create_agent builds over an InMemorySaver checkpointer.                 *)
(*                                                                         *)
(* Text is a sequence of characters (one-character strings) wherever the   *)
(* code inspects characters (input lines, tool arguments, table keys).     *)
(* The Japanese literals of the source are abridged to ASCII tokens; a     *)
(* token stands for a run of characters of the literal.                    *)
(***************************************************************************)
EXTENDS Naturals, Sequences, FiniteSets, TLC

VARIABLES
    pc,            \* position of main(): "input" | "check" | "invoke" | "print" | "exited" | "crashed"
    line,          \* the raw line input() returned, until main() has acted on it
    user_message,  \* main(): user_message
    history,       \* the checkpointer's message history of this thread_id
    node,          \* position inside agent.invoke: "idle" | "model" | "tools"
    steps,         \* tool round trips made inside the current agent.invoke
    pending,       \* the tool request the model made, awaiting dispatch
    response,      \* main(): response.get("structured_response"), None before the first return
    out,           \* lines printed to standard output
    exc,           \* the exception that left main(), "none" if none
    tool_call,     \* the most recent tool invocation: <<>> or <<[name, arg, result]>>
    config,        \* main(): config, the RunnableConfig holding the thread_id
    context,       \* main(): context
    invoke_args,   \* config and context of the latest agent.invoke call, None before the first
    calls          \* tool invocations made directly, in order

vars == <<pc, line, user_message, history, node, steps, pending, response, out, exc, tool_call,
          config, context, invoke_args, calls>>

-----------------------------------------------------------------------------
(* Bounds *)

\* Number of user messages submitted to the agent in one session.
MaxTurns == 2
\* The agent graph's step budget, counted in tool round trips per invoke.
RecursionLimit == 2
\* Longest generated tool argument in the direct tool-call specification.
MaxArgLen == 3
\* Number of tool invocations in a sequence of repeated direct calls.
MaxCalls == 3

-----------------------------------------------------------------------------
(* Optional values: None is <<>>, a present value v is <<v>>. *)

None == <<>>
Some(v) == <<v>>
IsNone(o) == o = <<>>
Get(o) == o[1]

\* Python truthiness of an Optional[str]: neither None nor "".
Truthy(o) == o # <<>> /\ o[1] # <<>>

-----------------------------------------------------------------------------
(* str.strip() and str.lower() *)

Whitespace == {" ", "\t", "\n", "\r", "\f"}

UpperLetters == <<"A","B","C","D","E","F","G","H","I","J","K","L","M",
                  "N","O","P","Q","R","S","T","U","V","W","X","Y","Z">>
LowerLetters == <<"a","b","c","d","e","f","g","h","i","j","k","l","m",
                  "n","o","p","q","r","s","t","u","v","w","x","y","z">>

LowerCharIdentity(c) == c

LowerChar(c) ==
    IF \E i \in 1..26 : UpperLetters[i] = c
    THEN LowerLetters[CHOOSE i \in 1..26 : UpperLetters[i] = c]
    ELSE c

Lower(s) == [i \in 1..Len(s) |-> LowerChar(s[i])]

RECURSIVE LStrip(_)
LStrip(s) ==
    IF s # <<>> /\ Head(s) \in Whitespace THEN LStrip(Tail(s)) ELSE s

RECURSIVE RStrip(_)
RStrip(s) ==
    IF s # <<>> /\ s[Len(s)] \in Whitespace
    THEN RStrip(SubSeq(s, 1, Len(s) - 1))
    ELSE s

StripNothing(s) == s

Strip(s) == RStrip(LStrip(s))

-----------------------------------------------------------------------------
(* The tools (src/main.py:40-112) *)

BFS == <<"B","F","S">>
DFS == <<"D","F","S">>
AStar == <<"A","*">>
KServer == <<"k","-","s","e","r","v","e","r">>
OnlineShortestPath ==
    <<"o","n","l","i","n","e","_","s","h","o","r","t","e","s","t","_","p","a","t","h">>
Paging == <<"p","a","g","i","n","g">>
MetricalTaskSystem ==
    <<"m","e","t","r","i","c","a","l","_","t","a","s","k","_","s","y","s","t","e","m">>

\* The triple-quoted values: each starts with a newline and ends with the
\* newline and indentation before the closing quotes.
algorithms ==
    (BFS :> <<"\n", "Habayuusen tansaku (Breadth-First Search):", "\n",
              "- jikan keisanryou: O(V + E)", "\n", "        ">>)
    @@ (DFS :> <<"\n", "Fukasayuusen tansaku (Depth-First Search):", "\n",
                 "- jikan keisanryou: O(V + E)", "\n", "        ">>)
    @@ (AStar :> <<"\n", "A* tansaku arugorizumu:", "\n",
                   "- jikan keisanryou: O(b^d)", "\n", "        ">>)
    @@ (KServer :> <<"\n", "k-saabaa mondai:", "\n",
                     "- kakai: k", "\n", "        ">>)

analyses ==
    (OnlineShortestPath :> <<"\n", "Onrain saitanro mondai no kaiseki:", "\n",
                             "- shuyou kekka: Omega(n) no kakai", "\n", "        ">>)
    @@ (Paging :> <<"\n", "Peejingu mondai no kaiseki:", "\n",
                    "- LRU (Least Recently Used): k kyougou", "\n", "        ">>)
    @@ (MetricalTaskSystem :> <<"\n", "Kyori kuukan tasuku shisutemu (MTS):", "\n",
                                "- Work Function Algorithm: 2k-1 kyougou", "\n", "        ">>)

\* dict.get(key, default)
DictGetIgnoreCase(d, key, default) ==
    IF \E k \in DOMAIN d : Lower(k) = Lower(key)
    THEN d[CHOOSE k \in DOMAIN d : Lower(k) = Lower(key)]
    ELSE default

DictGet(d, key, default) == IF key \in DOMAIN d THEN d[key] ELSE default

get_algorithm_info_CachedFirst(algorithm_name) ==
    IF \E i \in 1..Len(calls) : calls[i].name = "get_algorithm_info"
    THEN calls[CHOOSE i \in 1..Len(calls) :
                   /\ calls[i].name = "get_algorithm_info"
                   /\ \A j \in 1..(i - 1) : calls[j].name # "get_algorithm_info"].result
    ELSE DictGet(algorithms, algorithm_name,
                 <<"Moushiwake arimasen. ">> \o algorithm_name
                     \o <<" no jouhou wa touroku sarete imasen.">>)

get_algorithm_info(algorithm_name) ==
    DictGet(algorithms, algorithm_name,
            <<"Moushiwake arimasen. ">> \o algorithm_name
                \o <<" no jouhou wa touroku sarete imasen.">>)

get_complexity_analysis_WrongTable(problem_type) ==
    DictGet(algorithms, problem_type,
            problem_type \o <<" no kaiseki jouhou wa touroku sarete imasen.">>)

get_complexity_analysis(problem_type) ==
    DictGet(analyses, problem_type,
            problem_type \o <<" no kaiseki jouhou wa touroku sarete imasen.">>)

\* tools=[get_algorithm_info, get_complexity_analysis]
RegisteredTools == {"get_algorithm_info", "get_complexity_analysis"}

CallTool(name, arg) ==
    IF name = "get_algorithm_info" THEN get_algorithm_info(arg)
    ELSE get_complexity_analysis(arg)


-----------------------------------------------------------------------------
(* Inputs drawn by the environment *)

\* Lines typed at the "You: " prompt: blank lines, exit commands in several
\* letter cases and with surrounding whitespace, and one ordinary message.
InputLines ==
    { <<>>,
      <<" ", "\t">>,
      <<"e","x","i","t">>,
      <<" ","Q","u","I","t","\t">>,
      <<" ","e","x","i","t","s","\t">> }

\* Tool requests the model may make: a stored key of a registered tool and a
\* name outside the registered set.
ToolRequests ==
    { [name |-> "get_algorithm_info", arg |-> KServer],
      [name |-> "lookup_paper", arg |-> BFS] }

ExplanationText == <<"BFS explores a graph layer by layer.">>
NextStepsText == <<"Read about DFS next.">>
RelatedText == <<"queue, shortest path">>

\* ResponseFormat (src/main.py:120-129)
ResponseFormat(explanation, next_steps, related_concepts) ==
    [explanation |-> explanation, next_steps |-> next_steps,
     related_concepts |-> related_concepts]

\* What the model may return as its final answer: Some(ResponseFormat) or no
\* structured response at all.
FinalAnswers ==
    { Some(ResponseFormat(Some(ExplanationText), None, Some(RelatedText))),
      Some(ResponseFormat(Some(ExplanationText), Some(NextStepsText), Some(<<>>))),
      Some(ResponseFormat(Some(<<>>), Some(<<>>), None)),
      None }

-----------------------------------------------------------------------------
(* Session history kept by the checkpointer *)

UserTurnWithStudent(text) ==
    [role |-> "user", content |-> <<context.student_id>> \o text]

UserTurn(text) == [role |-> "user", content |-> text]
ToolTurn(name, arg, result) ==
    [role |-> "tool", content |-> <<name, arg, result>>]
AssistantTurn(explanation) == [role |-> "assistant", content |-> explanation]

AppendTurnInFront(h, t) == <<t>> \o h

\* The messages channel of the agent state: a new message is added at the end.
AppendTurn(h, t) == Append(h, t)

UserTurns(h) == Cardinality({i \in 1..Len(h) : h[i].role = "user"})

\* getattr(structured, name, None)
Explanation(structured) ==
    IF IsNone(structured) THEN None ELSE Get(structured).explanation
NextSteps(structured) ==
    IF IsNone(structured) THEN None ELSE Get(structured).next_steps
RelatedConcepts(structured) ==
    IF IsNone(structured) THEN None ELSE Get(structured).related_concepts

-----------------------------------------------------------------------------
(* Printed lines *)

Banner == <<"Type 'exit' or 'quit' to end the conversation.">>
Goodbye == <<"Goodbye!">>
EOFLine == <<"\n", "EOF received. Exiting.">>
InterruptedLine == <<"\n", "Interrupted. Exiting.">>
Sentinel == <<"Unable to provide a structured response.">>

ProfessorLineRaw(explanation) ==
    <<"Professor: ">> \o (IF IsNone(explanation) THEN <<"None">> ELSE Get(explanation))

ProfessorLine(explanation) ==
    IF Truthy(explanation)
    THEN <<"Professor: ">> \o Get(explanation)
    ELSE <<"Professor: ">> \o Sentinel

OptionalLineWhenPresent(label, value) ==
    IF ~IsNone(value) THEN << <<label>> \o Get(value) >> ELSE <<>>

OptionalLine(label, value) ==
    IF Truthy(value) THEN << <<label>> \o Get(value) >> ELSE <<>>

\* src/main.py:182-196
PrintedAnswer(structured) ==
    << ProfessorLine(Explanation(structured)) >>
    \o OptionalLine("Next steps: ", NextSteps(structured))
    \o OptionalLine("Related concepts: ", RelatedConcepts(structured))

-----------------------------------------------------------------------------
(* Session identity and context *)

\* Context (src/main.py:25-30)
Context(student_id) == [student_id |-> student_id]

\* config = {"configurable": {"thread_id": str(uuid.uuid4())}}: the identifier
\* is one opaque value, drawn once.
RunnableConfig == [thread_id |-> "uuid4"]

InvokeArgsFreshThread ==
    [config |-> [thread_id |-> IF history = <<>> THEN "uuid4" ELSE "uuid4-again"],
     context |-> context]

\* agent.invoke(..., config=config, context=context)
InvokeArgs == [config |-> config, context |-> context]

\* The checkpointer keeps one history per thread_id: a call finds the history
\* saved under its own thread_id, and an empty one under a new thread_id.
SavedHistory(args) ==
    IF IsNone(invoke_args) \/ Get(invoke_args).config.thread_id = args.config.thread_id
    THEN history
    ELSE <<>>

-----------------------------------------------------------------------------
(* Initial state: main() has printed the banner and is about to read. *)

Init ==
    /\ pc = "input"
    /\ line = <<>>
    /\ user_message = <<>>
    /\ history = <<>>
    /\ node = "idle"
    /\ steps = 0
    /\ pending = None
    /\ response = None
    /\ out = <<Banner>>
    /\ exc = "none"
    /\ tool_call = None
    /\ config = RunnableConfig
    /\ context = Context("1")
    /\ invoke_args = None
    /\ calls = <<>>

-----------------------------------------------------------------------------
(* The shell: main() *)

IsExitCommandExactCase(msg) == msg \in { <<"e","x","i","t">>, <<"q","u","i","t">> }

\* user_message.lower() in {"exit", "quit"}
IsExitCommand(msg) == Lower(msg) \in { <<"e","x","i","t">>, <<"q","u","i","t">> }

\* user_message = input("You: ").strip()
\* (after MaxTurns submissions only blank lines and exit commands are typed)
ReadLine(l) ==
    /\ pc = "input"
    /\ UserTurns(history) < MaxTurns \/ Strip(l) = <<>> \/ IsExitCommand(Strip(l))
    /\ line' = l
    /\ user_message' = Strip(l)
    /\ pc' = "check"
    /\ UNCHANGED <<history, node, steps, pending, response, out, exc, tool_call, config, context, invoke_args, calls>>

\* except EOFError: print; break
ReadEOF ==
    /\ pc = "input"
    /\ out' = Append(out, EOFLine)
    /\ pc' = "exited"
    /\ UNCHANGED <<line, user_message, history, node, steps, pending, response, exc, tool_call, config, context, invoke_args, calls>>

\* except KeyboardInterrupt: print; break
ReadInterrupt ==
    /\ pc = "input"
    /\ out' = Append(out, InterruptedLine)
    /\ pc' = "exited"
    /\ UNCHANGED <<line, user_message, history, node, steps, pending, response, exc, tool_call, config, context, invoke_args, calls>>

\* if not user_message: continue
SkipBlank ==
    /\ pc = "check"
    /\ user_message = <<>>
    /\ pc' = "input"
    /\ line' = <<>>
    /\ UNCHANGED <<user_message, history, node, steps, pending, response, out, exc, tool_call, config, context, invoke_args, calls>>

\* if user_message.lower() in {"exit", "quit"}: print("Goodbye!"); break
Quit ==
    /\ pc = "check"
    /\ user_message # <<>>
    /\ IsExitCommand(user_message)
    /\ out' = Append(out, Goodbye)
    /\ pc' = "exited"
    /\ line' = <<>>
    /\ UNCHANGED <<user_message, history, node, steps, pending, response, exc, tool_call, config, context, invoke_args, calls>>

SubmitNotBlocking ==
    /\ pc = "check"
    /\ user_message # <<>>
    /\ ~IsExitCommand(user_message)
    /\ invoke_args' = Some(InvokeArgs)
    /\ history' = AppendTurn(SavedHistory(InvokeArgs), UserTurn(user_message))
    /\ node' = "model"
    /\ steps' = 0
    /\ pc' = "input"
    /\ line' = <<>>
    /\ UNCHANGED <<user_message, pending, response, out, exc, tool_call, config, context, calls>>

\* agent.invoke({"messages": [user message]}, config, context): the call is
\* entered and the user message joins the thread's history.
Submit ==
    /\ pc = "check"
    /\ user_message # <<>>
    /\ ~IsExitCommand(user_message)
    /\ invoke_args' = Some(InvokeArgs)
    /\ history' = AppendTurn(SavedHistory(InvokeArgs), UserTurn(user_message))
    /\ node' = "model"
    /\ steps' = 0
    /\ pc' = "invoke"
    /\ line' = <<>>
    /\ UNCHANGED <<user_message, pending, response, out, exc, tool_call, config, context, calls>>

\* structured = response.get("structured_response") and the prints after it
PrintAnswer ==
    /\ pc = "print"
    /\ out' = out \o PrintedAnswer(response)
    /\ pc' = "input"
    /\ UNCHANGED <<line, user_message, history, node, steps, pending, response, exc, tool_call, config, context, invoke_args, calls>>

-----------------------------------------------------------------------------
(* Inside agent.invoke: the model / tools loop of the agent graph *)

InvalidToolMessage(name) ==
    <<"Error: ", name, " is not a valid tool, try one of [get_algorithm_info, get_complexity_analysis].">>

\* The model answers a query with a tool request.
ModelRequestsTool(req) ==
    /\ pc = "invoke"
    /\ node = "model"
    /\ steps < RecursionLimit
    /\ pending' = Some(req)
    /\ node' = "tools"
    /\ UNCHANGED <<pc, line, user_message, history, steps, response, out, exc, tool_call, config, context, invoke_args, calls>>

\* The tools node runs the requested call and adds its result to the
\* history; a name that is not registered gets an error result instead.
ToolDispatch ==
    /\ pc = "invoke"
    /\ node = "tools"
    /\ LET req == Get(pending)
           known == req.name \in RegisteredTools
           result == IF known THEN CallTool(req.name, req.arg)
                     ELSE InvalidToolMessage(req.name)
       IN /\ history' = AppendTurn(history, ToolTurn(req.name, req.arg, result))
          /\ tool_call' = IF known
                          THEN Some([name |-> req.name, arg |-> req.arg, result |-> result])
                          ELSE tool_call
    /\ steps' = steps + 1
    /\ pending' = None
    /\ node' = "model"
    /\ UNCHANGED <<pc, line, user_message, response, out, exc, config, context, invoke_args, calls>>

\* The model asks for yet another tool when the graph's step budget is
\* used up: the graph raises GraphRecursionError, which main() does not catch.
RecursionLimitReached(req) ==
    /\ pc = "invoke"
    /\ node = "model"
    /\ steps = RecursionLimit
    /\ node' = "idle"
    /\ exc' = "GraphRecursionError"
    /\ pc' = "crashed"
    /\ UNCHANGED <<line, user_message, history, steps, pending, response, out, tool_call, config, context, invoke_args, calls>>

ModelFinalAnswerNotRecorded(ans) ==
    /\ pc = "invoke"
    /\ node = "model"
    /\ response' = ans
    /\ node' = "idle"
    /\ pc' = "print"
    /\ UNCHANGED <<line, user_message, history, steps, pending, out, exc, tool_call, config, context, invoke_args, calls>>

\* The model returns its final answer; agent.invoke returns the state.
ModelFinalAnswer(ans) ==
    /\ pc = "invoke"
    /\ node = "model"
    /\ history' = AppendTurn(history, AssistantTurn(Explanation(ans)))
    /\ response' = ans
    /\ node' = "idle"
    /\ pc' = "print"
    /\ UNCHANGED <<line, user_message, steps, pending, out, exc, tool_call, config, context, invoke_args, calls>>

\* The call to the model fails (timeout, malformed protocol response) after
\* the client's own retries: the error propagates out of agent.invoke and
\* out of main().
ModelTransportFailure ==
    /\ pc = "invoke"
    /\ node = "model"
    /\ node' = "idle"
    /\ exc' = "ModelTransportFailure"
    /\ pc' = "crashed"
    /\ UNCHANGED <<line, user_message, history, steps, pending, response, out, tool_call, config, context, invoke_args, calls>>

\* Ctrl-C while agent.invoke runs: outside the try block of main().
InterruptDuringInvoke ==
    /\ pc = "invoke"
    /\ node' = "idle"
    /\ exc' = "KeyboardInterrupt"
    /\ pc' = "crashed"
    /\ UNCHANGED <<line, user_message, history, steps, pending, response, out, tool_call, config, context, invoke_args, calls>>

Next ==
    \/ \E l \in InputLines : ReadLine(l)
    \/ ReadEOF
    \/ ReadInterrupt
    \/ SkipBlank
    \/ Quit
    \/ Submit
    \/ \E req \in ToolRequests : ModelRequestsTool(req)
    \/ ToolDispatch
    \/ \E req \in ToolRequests : RecursionLimitReached(req)
    \/ \E ans \in FinalAnswers : ModelFinalAnswer(ans)
    \/ ModelTransportFailure
    \/ InterruptDuringInvoke
    \/ PrintAnswer

Spec == Init /\ [][Next]_vars

-----------------------------------------------------------------------------
(* Direct tool calls: each tool applied to generated and stored arguments *)

ArgAlphabet == {"B", "F", "S", "b"}

RECURSIVE SeqsUpTo(_)
SeqsUpTo(n) ==
    IF n = 0 THEN { <<>> }
    ELSE LET shorter == SeqsUpTo(n - 1)
         IN shorter \cup { Append(q, c) : q \in shorter, c \in ArgAlphabet }

ToolArgs ==
    SeqsUpTo(MaxArgLen)
    \cup DOMAIN algorithms \cup DOMAIN analyses
    \cup { <<"D","i","j","k","s","t","r","a">>, <<"b","f","s">>, <<" ","B","F","S">>,
           <<"P","a","g","i","n","g">>, <<"p","a","g","i","n","g"," ">> }

DirectCall(name, arg) ==
    /\ tool_call' = Some([name |-> name, arg |-> arg, result |-> CallTool(name, arg)])
    /\ UNCHANGED <<pc, line, user_message, history, node, steps, pending, response, out, exc,
                   config, context, invoke_args, calls>>

NextTools == \E name \in RegisteredTools, arg \in ToolArgs : DirectCall(name, arg)

ToolSpec == Init /\ [][NextTools]_vars

-----------------------------------------------------------------------------
(* Repeated direct tool calls: sequences of invocations of both tools *)

RepeatArgs == { KServer, Paging, <<"b","f","s">> }

RepeatedCall(name, arg) ==
    /\ Len(calls) < MaxCalls
    /\ LET c == [name |-> name, arg |-> arg, result |-> CallTool(name, arg)]
       IN /\ calls' = Append(calls, c)
          /\ tool_call' = Some(c)
    /\ UNCHANGED <<pc, line, user_message, history, node, steps, pending, response, out, exc,
                   config, context, invoke_args>>

NextRepeat == \E name \in RegisteredTools, arg \in RepeatArgs : RepeatedCall(name, arg)

RepeatSpec == Init /\ [][NextRepeat]_vars

-----------------------------------------------------------------------------
(* Helpers of the properties *)

IsPrefix(s, t) == Len(s) <= Len(t) /\ SubSeq(t, 1, Len(s)) = s

Contains(s, sub) ==
    \E i \in 0..(Len(s) - Len(sub)) : SubSeq(s, i + 1, i + Len(sub)) = sub

Range(f) == { f[x] : x \in DOMAIN f }

Roles(h) == [i \in 1..Len(h) |-> h[i].role]

AssistantTurns(h) == Cardinality({i \in 1..Len(h) : h[i].role = "assistant"})

\* h is a sequence of complete calls: user, tool*, assistant, repeated.
CompleteCalls(h) ==
    /\ \A i \in 1..Len(h) :
          /\ h[i].role = "user" => (i = 1 \/ h[i-1].role = "assistant")
          /\ h[i].role \in {"tool", "assistant"} =>
                (i > 1 /\ h[i-1].role \in {"user", "tool"})
    /\ h # <<>> => h[Len(h)].role = "assistant"

SentinelLine == <<"Professor: ", "Unable to provide a structured response.">>

ProfessorLines(o) == { i \in 1..Len(o) : o[i][1] = "Professor: " }

LastProfessorLine(o) ==
    o[CHOOSE i \in ProfessorLines(o) : \A j \in ProfessorLines(o) : j <= i]

FailureModes == {"GraphRecursionError", "ModelTransportFailure"}

BlankLines == { <<>>, <<" ", "\t">> }
ExitLines == { <<"e","x","i","t">>, <<" ","Q","u","I","t","\t">> }

-----------------------------------------------------------------------------
(* Properties *)

\* C1: a model that asks for a tool on every query still gets a terminal
\* answer within the step budget: the turn never ends by the budget's error
\* leaving agent.invoke.
C1_BudgetExhaustionYieldsAnswer == ~(pc = "crashed" /\ exc = "GraphRecursionError")

\* C2: no failure mode's error crosses from agent.invoke into the shell:
\* main() is never left by an exception of a failure mode.
C2_NoErrorCrossesBoundary == exc \notin FailureModes

\* C3: a turn that fails internally ends with the shell printing the
\* "unable to provide a structured response" line and reading input again;
\* it never ends the loop or the process.
C3_SessionSurvivesFailure ==
    [][ /\ (pc = "invoke" /\ pc' # "invoke" /\ exc' # "KeyboardInterrupt")
            => (pc' = "print" /\ IsPrefix(history, history'))
        /\ (pc = "print" /\ ~Truthy(Explanation(response)))
            => (pc' = "input" /\ IsPrefix(Append(out, SentinelLine), out')
                /\ history' = history) ]_vars

\* C4: the session history is append-only: every step leaves the old
\* history as a prefix of the new one.
C4_HistoryAppendOnly == [][IsPrefix(history, history')]_vars

C4_Witness ==
    /\ UserTurns(history) = 2
    /\ Roles(history) = <<"user", "tool", "assistant", "user", "tool", "tool", "assistant">>

C6_StoredKeyReturnsStoredString ==
    tool_call # None =>
        LET c == Get(tool_call)
        IN /\ (c.name = "get_algorithm_info" /\ c.arg \in DOMAIN algorithms)
                => (c.result = algorithms[c.arg]
                    /\ c.result[Len(c.result)] # " no jouhou wa touroku sarete imasen.")
           /\ (c.name = "get_complexity_analysis" /\ c.arg \in DOMAIN analyses)
                => (c.result = analyses[c.arg]
                    /\ c.result[Len(c.result)] # " no kaiseki jouhou wa touroku sarete imasen.")

C6_Witness ==
    tool_call = Some([name |-> "get_complexity_analysis", arg |-> Paging,
                      result |-> analyses[Paging]])

\* C7: a registered tool called with an argument that is not exactly a key
\* of its table returns a "not registered" string that contains the argument
\* verbatim and is no stored entry.
C7_MissReturnsFallbackWithKey ==
    tool_call # None =>
        LET c == Get(tool_call)
            table == IF c.name = "get_algorithm_info" THEN algorithms ELSE analyses
            notice == IF c.name = "get_algorithm_info"
                      THEN " no jouhou wa touroku sarete imasen."
                      ELSE " no kaiseki jouhou wa touroku sarete imasen."
        IN c.arg \notin DOMAIN table =>
              /\ Contains(c.result, c.arg)
              /\ c.result[Len(c.result)] = notice
              /\ c.result \notin Range(algorithms) \cup Range(analyses)

C7_Witness ==
    tool_call = Some([name |-> "get_algorithm_info", arg |-> <<"b","f","s">>,
                      result |-> <<"Moushiwake arimasen. ", "b", "f", "s",
                                   " no jouhou wa touroku sarete imasen.">>])

\* C8: when the returned answer has no explanation, an empty one, or there
\* is no structured response at all, the Professor line printed for the turn
\* is the "unable to provide a structured response" line; no Professor line
\* is ever empty.
C8_EmptyExplanationGivesSentinel ==
    /\ (pc # "print" /\ AssistantTurns(history) > 0 /\ ~Truthy(Explanation(response)))
          => LastProfessorLine(out) = SentinelLine
    /\ \A i \in ProfessorLines(out) : Len(out[i]) > 1 /\ out[i][2] # "None"

C8_Witness ==
    /\ pc = "input"
    /\ response = None
    /\ AssistantTurns(history) = 2
    /\ out[Len(out)] = SentinelLine

\* C9: a blank line (empty or only whitespace) starts no agent call, prints
\* nothing and leaves the history unchanged; the shell reads input again.
C9_BlankInputIgnored ==
    [][ (pc = "check" /\ line \in BlankLines)
            => (pc' = "input" /\ node' = node /\ history' = history
                /\ out' = out /\ response' = response) ]_vars

C9_Witness ==
    /\ pc = "input"
    /\ user_message = <<>>
    /\ Len(history) >= 2
    /\ node = "idle"

\* C10: exit or quit in any letter case, surrounding whitespace ignored,
\* ends the session: nothing is submitted, the history is unchanged, and no
\* step follows.
C10_ExitCommandEndsSession ==
    [][ /\ (pc = "check" /\ line \in ExitLines)
            => (pc' = "exited" /\ history' = history /\ node' = node)
        /\ pc # "exited" ]_vars

C10_Witness ==
    /\ pc = "exited"
    /\ user_message = <<"Q","u","I","t">>
    /\ out[Len(out)] = Goodbye
    /\ Len(history) >= 2

\* C11: end of input and an interrupt each end the session cleanly, whether
\* they arrive at the prompt or while a turn is in progress: an interrupt
\* never leaves main() as an exception.
C11_InterruptExitsCleanly == exc = "KeyboardInterrupt" => pc = "exited"

\* The lines of the last printed answer: the last Professor line and the
\* Next steps / Related concepts lines after it.
AnswerLabels == {"Professor: ", "Next steps: ", "Related concepts: "}

IsAnswerLine(l) == l[1] \in AnswerLabels

AnswerBlock(o) ==
    LET p == CHOOSE i \in ProfessorLines(o) : \A j \in ProfessorLines(o) : j <= i
    IN SelectSeq(SubSeq(o, p, Len(o)), IsAnswerLine)

Labels(ls) == [i \in 1..Len(ls) |-> ls[i][1]]

C13_UnknownToolEndsLoop ==
    ~( /\ pc = "invoke"
       /\ node = "model"
       /\ steps > 0
       /\ history[Len(history)].role = "tool"
       /\ history[Len(history)].content[1] \notin RegisteredTools )

\* Whether a turn's text mentions the token v.
Mentions(t, v) ==
    CASE t.role = "user" -> \E i \in 1..Len(t.content) : t.content[i] = v
      [] t.role = "tool" ->
            \/ t.content[1] = v
            \/ \E i \in 1..Len(t.content[2]) : t.content[2][i] = v
            \/ \E i \in 1..Len(t.content[3]) : t.content[3][i] = v
      [] OTHER ->
            /\ t.content # None
            /\ \E i \in 1..Len(t.content[1]) : t.content[1][i] = v

\* C14: the Context (student_id "1") is handed to every agent call, is
\* never changed, and no turn of the history holds it or its student_id.
C14_ContextPassedNotStored ==
    /\ context = [student_id |-> "1"]
    /\ pc = "invoke" =>
          (invoke_args # None /\ invoke_args[1].context = [student_id |-> "1"])
    /\ \A t \in Range(history) :
          /\ DOMAIN t = {"role", "content"}
          /\ ~Mentions(t, "1")

C14_Witness ==
    /\ pc = "invoke"
    /\ node = "model"
    /\ steps = 1
    /\ UserTurns(history) = 2
    /\ invoke_args = << [config |-> config, context |-> [student_id |-> "1"]] >>

\* C15: the thread_id is drawn once and never changes; every agent call
\* uses it, so the one history holds the turns of all calls: it has as many
\* assistant turns as answers were printed.
C15_OneThreadPerProcess ==
    /\ config = [thread_id |-> "uuid4"]
    /\ invoke_args # None => invoke_args[1].config.thread_id = "uuid4"
    /\ pc # "print" => AssistantTurns(history) = Cardinality(ProfessorLines(out))
    /\ pc = "invoke" => UserTurns(history) = Cardinality(ProfessorLines(out)) + 1

C15_Witness ==
    /\ pc = "invoke"
    /\ UserTurns(history) = 2
    /\ AssistantTurns(history) = 1
    /\ invoke_args # None
    /\ invoke_args[1].config = config

\* The order of the steps of a turn: the user turn is added when the call is
\* entered and the model is queried next; a tool dispatch happens only on a
\* request of the model, adds that request's result to the history and is
\* followed by a model query; the answer is reached only from a model query,
\* is handled once, and no tool runs after it.
TurnOrderStep ==
    /\ (pc = "check" /\ pc' = "invoke")
        => /\ node' = "model"
           /\ history' = Append(history, [role |-> "user", content |-> user_message])
    /\ (pc = "invoke" /\ node = "model" /\ node' = "tools")
        => (pending' # None /\ history' = history)
    /\ (node = "tools" /\ steps' # steps)
        => /\ pc' = "invoke" /\ node' = "model"
           /\ Len(history') = Len(history) + 1
           /\ history'[Len(history')].role = "tool"
           /\ history'[Len(history')].content[1] = pending[1].name
           /\ history'[Len(history')].content[2] = pending[1].arg
    /\ (Len(history') > Len(history) /\ history'[Len(history')].role = "tool")
        => (pc = "invoke" /\ node = "tools")
    /\ (pc # "print" /\ pc' = "print")
        => /\ pc = "invoke" /\ node = "model" /\ node' = "idle"
           /\ history'[Len(history')].role = "assistant"
    /\ pc = "print"
        => /\ pc' = "input" /\ node' = "idle"
           /\ history' = history /\ tool_call' = tool_call /\ pending' = pending
    /\ node # "idle" => pc = "invoke"

\* The order alone, which every step keeps.
TurnOrderKept == [][TurnOrderStep]_vars

\* C16: a turn follows AwaitingUserInput -> ModelQuery -> {ToolDispatch ->
\* ModelQuery}* -> AnswerValidation -> AwaitingUserInput: its steps keep the
\* order above, and a turn in progress that the user does not interrupt is
\* left only into answer validation, which so happens exactly once per turn.
C16_TurnFollowsStateMachine ==
    [][ /\ TurnOrderStep
        /\ (pc = "invoke" /\ exc' # "KeyboardInterrupt")
              => pc' \in {"invoke", "print"} ]_vars

\* C17: turns do not overlap: while the shell reads or examines input no
\* agent call is running and every submitted message has its answer
\* returned and printed; during a call exactly one turn is unanswered.
C17_OneTurnAtATime ==
    /\ pc \in {"input", "check"} =>
          /\ node = "idle" /\ pending = None
          /\ AssistantTurns(history) = UserTurns(history)
          /\ Cardinality(ProfessorLines(out)) = UserTurns(history)
    /\ pc = "invoke" =>
          /\ node \in {"model", "tools"}
          /\ UserTurns(history) = AssistantTurns(history) + 1
    /\ pc = "print" =>
          /\ node = "idle"
          /\ AssistantTurns(history) = UserTurns(history)
          /\ Cardinality(ProfessorLines(out)) + 1 = UserTurns(history)

C17_Witness ==
    /\ pc = "check"
    /\ line = <<" ","e","x","i","t","s","\t">>
    /\ UserTurns(history) = 1
    /\ Cardinality(ProfessorLines(out)) = 1

\* C18: tool invocations are deterministic and free of side effects: in any
\* sequence of invocations two calls of the same tool with the same argument
\* return the same string, a stored key returns its stored entry whatever
\* was called before, and the session is as it was before the calls.
C18_ToolsDeterministicNoSideEffects ==
    /\ \A i, j \in 1..Len(calls) :
          (calls[i].name = calls[j].name /\ calls[i].arg = calls[j].arg)
              => calls[i].result = calls[j].result
    /\ \A i \in 1..Len(calls) :
          /\ (calls[i].name = "get_algorithm_info" /\ calls[i].arg \in DOMAIN algorithms)
                => calls[i].result = algorithms[calls[i].arg]
          /\ (calls[i].name = "get_complexity_analysis" /\ calls[i].arg \in DOMAIN analyses)
                => calls[i].result = analyses[calls[i].arg]
    /\ history = <<>> /\ out = <<Banner>> /\ response = None /\ pc = "input"

C18_Witness ==
    /\ Len(calls) = 3
    /\ calls[1] = [name |-> "get_algorithm_info", arg |-> <<"b","f","s">>,
                   result |-> <<"Moushiwake arimasen. ", "b", "f", "s",
                                " no jouhou wa touroku sarete imasen.">>]
    /\ calls[2].name = "get_complexity_analysis"
    /\ calls[3] = calls[1]

\* The typed lines that are neither blank nor an exit command, stripped.
OrdinaryMessages == { <<"e","x","i","t","s">> }

\* The exit commands of the typed lines, stripped.
ExitMessages == { <<"e","x","i","t">>, <<"Q","u","I","t">> }

\* C19: every message submitted to the agent is the typed line without its
\* leading and trailing whitespace, is not empty and is no exit command in
\* any letter case; so every user turn of the history is such a message.
C19_SubmittedMessagesAreClean ==
    /\ \A i \in 1..Len(history) :
          history[i].role = "user" =>
              LET m == history[i].content
              IN /\ m # <<>>
                 /\ m[1] \notin Whitespace /\ m[Len(m)] \notin Whitespace
                 /\ m \notin ExitMessages
                 /\ m \in OrdinaryMessages
    /\ pc = "invoke" =>
          \E i \in 1..Len(history) :
              /\ history[i] = [role |-> "user", content |-> user_message]
              /\ \A j \in (i + 1)..Len(history) : history[j].role # "user"
    /\ (pc = "check" /\ line = <<" ","e","x","i","t","s","\t">>)
          => user_message = <<"e","x","i","t","s">>

C19_Witness ==
    /\ pc = "exited"
    /\ user_message \in ExitMessages
    /\ UserTurns(history) = 2
    /\ \A i \in 1..Len(history) :
          history[i].role = "user" => history[i].content = <<"e","x","i","t","s">>

====
